---------------------------- MODULE Spec2Model ----------------------------
(***************************************************************************)
(* A model of the TapeImage (TIF) reader of layered-file-protocols,       *)
(* src/src/tapeimage.cpp: the address map, the record index and its       *)
(* lookup, the read head, and the reader's open / readinto / seek / tell  *)
(* / eof over an inner byte stream.                                        *)
(*                                                                         *)
(* The inner stream holds a byte sequence (the disk image).  Headers are   *)
(* 12 bytes, three little-endian 32-bit fields, decoded byte by byte.      *)
(* Every public operation is one action; the loops of readinto and seek    *)
(* are recursive operators over the reader's state, so that the same       *)
(* definitions also give the reference runs the equivalence laws need.     *)
(***************************************************************************)
EXTENDS Integers, Sequences, FiniteSets, TLC

(***************************************************************************)
(* Bounds of the model.                                                    *)
(***************************************************************************)
\* data records in a generated stream (a file-mark follows them)
MaxRecords == 2
\* payload bytes of one record
MaxBody == 2
\* largest length a caller asks of one read
MaxLen == 3
\* bytes that precede the TIF stream in the inner stream (addr.zero): 0 or
\* MaxZero
MaxZero == 1
\* calls that raise after which the reader is still called
MaxRaises == 0

(***************************************************************************)
(* Program constants.                                                      *)
(***************************************************************************)
header_size == 12
tapeimage_record == 0
tapeimage_file == 1

(***************************************************************************)
(* TLC's integers have 32 bits, so the model scales the machine word: a    *)
(* byte has the values 0..Byte-1 and a header field is four bytes, an      *)
(* unsigned number below UINT32 = Byte^4 (2^28 where the source has 2^32). *)
(* Unsigned arithmetic of the source wraps at UINT32; its 64-bit           *)
(* arithmetic is exact.                                                    *)
(***************************************************************************)
Byte == 128
UINT32 == Byte * Byte * Byte * Byte

LFP_OK == "LFP_OK"
LFP_OKINCOMPLETE == "LFP_OKINCOMPLETE"
LFP_EOF == "LFP_EOF"
LFP_PROTOCOL_TRYRECOVERY == "LFP_PROTOCOL_TRYRECOVERY"
\* a status of the inner stream that the reader does not know
LFP_IOERROR == "LFP_IOERROR"

Min(a, b) == IF a <= b THEN a ELSE b
Max(a, b) == IF a >= b THEN a ELSE b

(***************************************************************************)
(* On-disk encoding: a 32-bit field is four bytes, least significant      *)
(* first.  le32 is what a writer stores, rd32 is what the reader's         *)
(* memcpy (after the byte swap of a big-endian host) yields.               *)
(***************************************************************************)
le32(v) ==
    << v % Byte, (v \div Byte) % Byte, (v \div (Byte * Byte)) % Byte,
       (v \div (Byte * Byte * Byte)) % Byte >>

rd32(b, off) ==
    b[off + 1] + Byte * b[off + 2] + Byte * Byte * b[off + 3]
    + Byte * Byte * Byte * b[off + 4]

encode_header(h) == le32(h.type) \o le32(h.prev) \o le32(h.next)

decode_header(b) ==
    [type |-> rd32(b, 0), prev |-> rd32(b, 4), next |-> rd32(b, 8)]

(***************************************************************************)
(* Generated streams.  A stream is: zero junk bytes, then for each data    *)
(* record a header and its payload, then one file-mark header.  Payload    *)
(* byte j (logical offset j) has the value PayloadByte(j), which no        *)
(* header byte of a generated stream has.  Each header may carry a         *)
(* defect, and the image may be cut short.                                 *)
(***************************************************************************)
PayloadByte(j) == 100 + j

Defects == {"none", "type", "prev", "mono", "typemono", "prevmono"}
Cuts == {0, 1, 12, 13}

RECURSIVE SumTo(_, _)
SumTo(lens, i) == IF i = 0 THEN 0 ELSE lens[i] + SumTo(lens, i - 1)

\* physical offset of header i (1-based; Len(lens) + 1 is the file-mark)
HeaderAt(lens, zero, i) == zero + header_size * (i - 1) + SumTo(lens, i - 1)

BodyLen(lens, i) == IF i <= Len(lens) THEN lens[i] ELSE 0

GoodHeader(lens, zero, i) ==
    [type |-> IF i <= Len(lens) THEN tapeimage_record ELSE tapeimage_file,
     prev |-> IF i = 1 THEN 0 ELSE HeaderAt(lens, zero, i - 1),
     next |-> HeaderAt(lens, zero, i) + header_size + BodyLen(lens, i)]

Damage(h, d) ==
    LET ty == IF d \in {"type", "typemono"} THEN 7
              ELSE IF d = "retype" THEN tapeimage_record ELSE h.type
        pv == IF d \in {"prev", "prevmono"} THEN h.prev + 1 ELSE h.prev
        nx == IF d \in {"mono", "typemono", "prevmono"} THEN pv
              ELSE IF d = "short" THEN pv + 1 ELSE h.next
    IN  [type |-> ty, prev |-> pv, next |-> nx]

RECURSIVE Repeat(_, _)
Repeat(x, n) == IF n = 0 THEN << >> ELSE << x >> \o Repeat(x, n - 1)

RECURSIVE Records(_, _, _, _)
Records(lens, zero, defect, i) ==
    IF i > Len(lens) + 1 THEN << >>
    ELSE encode_header(Damage(GoodHeader(lens, zero, i), defect[i]))
         \o [j \in 1..BodyLen(lens, i) |->
                PayloadByte(SumTo(lens, i - 1) + j - 1)]
         \o Records(lens, zero, defect, i + 1)

Image(lens, zero, defect, cut) ==
    LET full == Repeat(99, zero) \o Records(lens, zero, defect, 1)
    IN  SubSeq(full, 1, Max(zero, Len(full) - cut))

Payload(lens) == [j \in 1..SumTo(lens, Len(lens)) |-> PayloadByte(j - 1)]


(***************************************************************************)
(* The inner stream (lfp_protocol): a byte image, a position, and what it  *)
(* will do during the current call of the reader: ready is the number of   *)
(* bytes it can deliver before it answers OK-incomplete (-1: it never      *)
(* blocks).  A read past the end of the image answers EOF with the bytes   *)
(* that were there.  log is the list of the answers it gave during the     *)
(* current call, each [pos, len, n, status, bytes].                        *)
(***************************************************************************)
fp_answer(f, len, n, status) ==
    [f      |-> [f EXCEPT !.pos = f.pos + n,
                          !.ready = IF f.ready >= 0 THEN f.ready - n ELSE -1,
                          !.log = Append(f.log,
                                     [pos |-> f.pos, len |-> len, n |-> n,
                                      status |-> status,
                                      bytes |-> SubSeq(f.data, f.pos + 1,
                                                       f.pos + n)])],
     n      |-> n,
     bytes  |-> SubSeq(f.data, f.pos + 1, f.pos + n),
     status |-> status]

fp_readinto(f, len) ==
    LET avail == Max(0, Len(f.data) - f.pos)
        want  == Min(len, avail)
    IN  IF f.ready >= 0 /\ f.ready < want
        THEN fp_answer(f, len, f.ready, LFP_OKINCOMPLETE)
        ELSE fp_answer(f, len, want,
                       IF len > avail THEN LFP_EOF ELSE LFP_OK)

fp_seek(f, off) == [f EXCEPT !.pos = off]

fp_tell(f) == f.pos

(***************************************************************************)
(* address_map                                                             *)
(***************************************************************************)
logical(zero, addr, record) == addr - (header_size * (1 + record)) - zero

\* mutant: the header of the record itself is not counted
physical_short(zero, addr, record) == addr + (header_size * record) + zero

physical(zero, addr, record) == addr + (header_size * (1 + record)) + zero

(***************************************************************************)
(* The reader.  A reader state t is a record:                              *)
(*   fp        the inner stream                                            *)
(*   zero      addr.zero                                                    *)
(*   index     the record index, a sequence of headers                     *)
(*   cur       the read head's position in the index, 0-based (-1 before   *)
(*             the first header is stored)                                  *)
(*   remaining the read head's remaining                                    *)
(*   recovery  LFP_OK or LFP_PROTOCOL_TRYRECOVERY                           *)
(*   err       the exception the running call has raised, or "none"        *)
(* index[p + 1] is the header at position p of the source's vector.        *)
(***************************************************************************)
Raise(t, e) == [t EXCEPT !.err = e]

hdr(t, p) == t.index[p + 1]

(***************************************************************************)
(* record_index::find                                                       *)
(***************************************************************************)
\* mutant: the hinted record also takes the offset at which it begins
in_hint_closed(t, n, hint) ==
    LET pos == hint
        end == logical(t.zero, hdr(t, hint).next, pos)
    IN  IF pos = 0
        THEN end > n
        ELSE LET begin == logical(t.zero, hdr(t, hint - 1).next, pos - 1)
             IN  n >= begin /\ n <= end

in_hint(t, n, hint) ==
    LET pos == hint
        end == logical(t.zero, hdr(t, hint).next, pos)
    IN  IF pos = 0
        THEN end > n
        ELSE LET begin == logical(t.zero, hdr(t, hint - 1).next, pos - 1)
             IN  n > begin /\ n <= end

\* the predicate of phase 1
less(t, h, n) == logical(t.zero, h.next, 0) < n

\* std::lower_bound over [first, first + len)
RECURSIVE lower_bound(_, _, _, _)
lower_bound(t, n, first, len) ==
    IF len <= 0 THEN first
    ELSE LET half == len \div 2
             mid  == first + half
         IN  IF less(t, hdr(t, mid), n)
             THEN lower_bound(t, n, mid + 1, len - half - 1)
             ELSE lower_bound(t, n, first, half)

\* the predicate of phase 2, with the position it carries
next_larger(t, n, rec, pos) == n <= logical(t.zero, rec.next, pos)

\* std::find_if over [p, end)
RECURSIVE find_if(_, _, _)
find_if(t, n, p) ==
    IF p >= Len(t.index) THEN Len(t.index)
    ELSE IF next_larger(t, n, hdr(t, p), p) THEN p
    ELSE find_if(t, n, p + 1)

\* the position found, or -1 for the logic_error
find(t, n, hint) ==
    IF in_hint(t, n, hint) THEN hint
    ELSE LET lower == lower_bound(t, n, 0, Len(t.index))
             cur   == find_if(t, n, lower)
         IN  IF cur >= Len(t.index) THEN -1 ELSE cur

(***************************************************************************)
(* read_head                                                                *)
(***************************************************************************)
exhausted(t) == t.remaining = 0

bytes_left(t) == t.remaining

move(t, n) ==
    IF t.remaining - n < 0
    THEN Raise(t, "invalid_argument")
    ELSE [t EXCEPT !.remaining = t.remaining - n]

\* base and the difference are computed in 32-bit unsigned arithmetic
next_record(t) ==
    LET base == (hdr(t, t.cur).next + header_size) % UINT32
    IN  [t EXCEPT !.cur = t.cur + 1,
                  !.remaining = (hdr(t, t.cur + 1).next - base) % UINT32]

read_head_tell(t) == hdr(t, t.cur).next - t.remaining


(***************************************************************************)
(* tapeimage                                                                *)
(***************************************************************************)
\* mutant: a file-mark is the end of the file only while it has data left
eof_with_data(t) == hdr(t, t.cur).type = tapeimage_file /\ t.remaining > 0

eof(t) == hdr(t, t.cur).type = tapeimage_file

\* mutant: remaining counts from the header's start, not from its end
append_from_header(t, head) ==
    LET tell == IF t.index = << >>
                THEN t.zero
                ELSE hdr(t, Len(t.index) - 1).next % UINT32
    IN  [t EXCEPT !.index = Append(t.index, head),
                  !.cur = Len(t.index),
                  !.remaining = head.next - tell]

\* the conditional's two branches have the types int64 and uint32
append(t, head) ==
    LET tell == IF t.index = << >>
                THEN header_size + t.zero
                ELSE (header_size + hdr(t, Len(t.index) - 1).next) % UINT32
    IN  [t EXCEPT !.index = Append(t.index, head),
                  !.cur = Len(t.index),
                  !.remaining = head.next - tell]

header_type_consistent(head) ==
    head.type = tapeimage_record \/ head.type = tapeimage_file

(***************************************************************************)
(* read_header_from_disk, after the 12 bytes were read: the three checks.  *)
(* Each takes and gives a pair [t, head]; a check that raises sets t.err.  *)
(***************************************************************************)
\* mutant: an unknown type is patched again while the reader is tainted
check_type_again(t, head) ==
    IF header_type_consistent(head) THEN [t |-> t, head |-> head]
    ELSE [t    |-> [t EXCEPT !.recovery = LFP_PROTOCOL_TRYRECOVERY],
          head |-> [head EXCEPT !.type = tapeimage_record]]

check_type(t, head) ==
    IF header_type_consistent(head) THEN [t |-> t, head |-> head]
    ELSE IF t.recovery # LFP_OK
    THEN [t |-> Raise(t, "protocol_failed_recovery"), head |-> head]
    ELSE [t    |-> [t EXCEPT !.recovery = LFP_PROTOCOL_TRYRECOVERY],
          head |-> [head EXCEPT !.type = tapeimage_record]]

check_monotone(t, head) ==
    IF head.next <= head.prev
    THEN [t |-> Raise(t, "protocol_fatal"), head |-> head]
    ELSE [t |-> t, head |-> head]

\* mutant: a clean reader stores the header with the back-link it read
check_backlink_keep(t, head) ==
    IF Len(t.index) >= 2
    THEN LET back2 == hdr(t, Len(t.index) - 2)
         IN  IF head.prev # back2.next
             THEN IF t.recovery # LFP_OK
                  THEN [t |-> Raise(t, "protocol_failed_recovery"),
                        head |-> head]
                  ELSE [t    |-> [t EXCEPT
                                    !.recovery = LFP_PROTOCOL_TRYRECOVERY],
                        head |-> head]
             ELSE [t |-> t, head |-> head]
    ELSE IF t.recovery # LFP_OK /\ t.index # << >> /\ head.prev # t.zero
    THEN [t |-> Raise(t, "protocol_failed_recovery"), head |-> head]
    ELSE [t |-> t, head |-> head]

\* mutant: a tainted reader patches a second back-link too
check_backlink_lenient(t, head) ==
    IF Len(t.index) >= 2
    THEN LET back2 == hdr(t, Len(t.index) - 2)
         IN  IF head.prev # back2.next
             THEN [t    |-> [t EXCEPT !.recovery = LFP_PROTOCOL_TRYRECOVERY],
                   head |-> [head EXCEPT !.prev = back2.next]]
             ELSE [t |-> t, head |-> head]
    ELSE [t |-> t, head |-> head]

check_backlink(t, head) ==
    IF Len(t.index) >= 2
    THEN LET back2 == hdr(t, Len(t.index) - 2)
         IN  IF head.prev # back2.next
             THEN IF t.recovery # LFP_OK
                  THEN [t |-> Raise(t, "protocol_failed_recovery"),
                        head |-> head]
                  ELSE [t    |-> [t EXCEPT
                                    !.recovery = LFP_PROTOCOL_TRYRECOVERY],
                        head |-> [head EXCEPT !.prev = back2.next]]
             ELSE [t |-> t, head |-> head]
    ELSE IF t.recovery # LFP_OK /\ t.index # << >> /\ head.prev # t.zero
    THEN [t |-> Raise(t, "protocol_failed_recovery"), head |-> head]
    ELSE [t |-> t, head |-> head]

\* a step of read_header_from_disk on the pair c the step before gave: it
\* is not reached when that step raised
then_monotone(c) ==
    IF c.t.err # "none" THEN c ELSE check_monotone(c.t, c.head)

then_backlink(c) ==
    IF c.t.err # "none" THEN c ELSE check_backlink(c.t, c.head)

then_append(c) ==
    IF c.t.err # "none" THEN c.t ELSE append(c.t, c.head)

\* the three checks in the order of the code and the append after them,
\* each on what the one before it gave
header_checks(t, head) ==
    CHOOSE u \in { then_append(c) :
                     c \in { then_backlink(b) :
                               b \in { then_monotone(a) :
                                         a \in { check_type(t, head) } } } } :
        TRUE

\* mutant: every answer but OK is taken for an incomplete header
header_read_merged(t, r) ==
    IF r.status # LFP_OK
    THEN Raise([t EXCEPT !.fp = r.f], "protocol_failed_recovery")
    ELSE header_checks([t EXCEPT !.fp = r.f], decode_header(r.bytes))

\* the switch on the inner stream's answer r, and the checks on the header
header_read(t, r) ==
    IF r.status = LFP_OKINCOMPLETE
    THEN Raise([t EXCEPT !.fp = r.f], "protocol_failed_recovery")
    ELSE IF r.status = LFP_EOF
    THEN Raise([t EXCEPT !.fp = r.f], "unexpected_eof")
    ELSE IF r.status # LFP_OK
    THEN Raise([t EXCEPT !.fp = r.f], "not_implemented")
    ELSE header_checks([t EXCEPT !.fp = r.f], decode_header(r.bytes))

read_header_from_disk(t) == header_read(t, fp_readinto(t.fp, header_size))

\* read_header(this->current)
read_header(t) ==
    IF t.cur + 1 = Len(t.index)
    THEN read_header_from_disk(t)
    ELSE LET next == next_record(t)
         IN  [next EXCEPT !.fp = fp_seek(t.fp, read_head_tell(next))]

(***************************************************************************)
(* readinto(dst, len): the loop.  A loop state is [t, len, dst]; dst is    *)
(* the bytes copied so far (bytes_read is its length).  The result is the  *)
(* loop state at the return or at the throw (t.err is then set).           *)
(***************************************************************************)
\* mutant: an incomplete answer of the inner stream is not passed on;
\* the loop goes on to the rest of the request
RECURSIVE readinto_loop_insist(_, _, _, _)
readinto_loop_insist(t, len, dst, fuel) ==
    IF eof(t) \/ fuel = 0 THEN [t |-> t, dst |-> dst]
    ELSE IF exhausted(t)
    THEN LET t1 == read_header(t)
         IN  IF t1.err # "none" THEN [t |-> t1, dst |-> dst]
             ELSE readinto_loop_insist(t1, len, dst, fuel - 1)
    ELSE LET r   == fp_readinto(t.fp, Min(len, bytes_left(t)))
             t1  == move([t EXCEPT !.fp = r.f], r.n)
             out == dst \o r.bytes
         IN  IF r.status = LFP_EOF /\ ~exhausted(t1)
             THEN [t |-> Raise(t1, "unexpected_eof"), dst |-> out]
             ELSE IF r.status = LFP_EOF \/ r.n = len
             THEN [t |-> t1, dst |-> out]
             ELSE readinto_loop_insist(t1, len - r.n, out, fuel - 1)

readinto_loop_retry(t, len, dst) ==
    readinto_loop_insist(t, len, dst, 2 * MaxRecords + 4)

RECURSIVE readinto_loop(_, _, _)

\* after read_header: t1 is the reader it left; "continue"
readinto_continue(t1, len, dst) ==
    IF t1.err # "none" THEN [t |-> t1, dst |-> dst]
    ELSE readinto_loop(t1, len, dst)

\* mutant: the end of the inner stream inside a record is a return
readinto_moved_lenient(t1, r, len, dst, out) ==
    IF t1.err # "none" THEN [t |-> t1, dst |-> dst]
    ELSE IF r.status = LFP_OKINCOMPLETE \/ r.status = LFP_EOF
    THEN [t |-> t1, dst |-> out]
    ELSE IF r.n = len THEN [t |-> t1, dst |-> out]
    ELSE readinto_loop(t1, len - r.n, out)

\* after fp->readinto answered r and current.move(n) gave t1; out is dst
\* with the bytes of r
readinto_moved(t1, r, len, dst, out) ==
    IF t1.err # "none" THEN [t |-> t1, dst |-> dst]
    ELSE IF r.status = LFP_OKINCOMPLETE
    THEN [t |-> t1, dst |-> out]
    ELSE IF r.status = LFP_EOF /\ ~exhausted(t1)
    THEN [t |-> Raise(t1, "unexpected_eof"), dst |-> out]
    ELSE IF r.status = LFP_EOF /\ exhausted(t1)
    THEN [t |-> t1, dst |-> out]
    ELSE IF r.n = len THEN [t |-> t1, dst |-> out]
    ELSE readinto_loop(t1, len - r.n, out)

\* the inner stream answered r to the read of to_read bytes
readinto_answered(t, r, len, dst) ==
    readinto_moved(move([t EXCEPT !.fp = r.f], r.n), r, len, dst,
                   dst \o r.bytes)

readinto_loop(t, len, dst) ==
    IF eof(t) THEN [t |-> t, dst |-> dst]
    ELSE IF exhausted(t)
    THEN readinto_continue(read_header(t), len, dst)
    ELSE IF Min(len, bytes_left(t)) < 0
    THEN [t |-> Raise(t, "invalid_argument"), dst |-> dst]
    ELSE readinto_answered(t, fp_readinto(t.fp, Min(len, bytes_left(t))),
                           len, dst)

\* mutant: the end of the file is reported before the recovery status
readinto_eof_first(r, len) ==
    IF r.t.err # "none" THEN r.t.err
    ELSE IF eof(r.t) /\ Len(r.dst) < len THEN LFP_EOF
    ELSE IF r.t.recovery # LFP_OK THEN r.t.recovery
    ELSE IF Len(r.dst) = len THEN LFP_OK
    ELSE LFP_OKINCOMPLETE

\* mutant: a full read is reported as OK before the recovery status
readinto_ok_first(r, len) ==
    IF r.t.err # "none" THEN r.t.err
    ELSE IF Len(r.dst) = len THEN LFP_OK
    ELSE IF r.t.recovery # LFP_OK THEN r.t.recovery
    ELSE IF eof(r.t) THEN LFP_EOF
    ELSE LFP_OKINCOMPLETE

\* the status of readinto(dst, len, bytes_read) when the loop ended in r;
\* the exception's name when it raised
readinto_status(r, len) ==
    IF r.t.err # "none" THEN r.t.err
    ELSE IF r.t.recovery # LFP_OK THEN r.t.recovery
    ELSE IF Len(r.dst) = len THEN LFP_OK
    ELSE IF eof(r.t) THEN LFP_EOF
    ELSE LFP_OKINCOMPLETE

readinto_returns(r, len) ==
    [t |-> r.t, dst |-> r.dst, status |-> readinto_status(r, len)]

\* readinto(dst, len, bytes_read): [t, dst, status]
readinto(t, len) == readinto_returns(readinto_loop(t, len, << >>), len)

(***************************************************************************)
(* seek                                                                     *)
(***************************************************************************)
\* mutant: remaining is left as read_head(next) constructs it
seek_with_index_stale(t, n) ==
    LET next == find(t, n, t.cur)
    IN  IF next = -1 THEN Raise(t, "logic_error")
        ELSE LET pos         == next
                 real_offset == physical(t.zero, n, pos)
             IN  [t EXCEPT !.fp = fp_seek(t.fp, real_offset),
                           !.cur = next,
                           !.remaining = 0]

\* mutant: a seek inside the index drops the headers after the target
seek_with_index_truncate(t, n) ==
    LET next == find(t, n, t.cur)
    IN  IF next = -1 THEN Raise(t, "logic_error")
        ELSE LET pos         == next
                 real_offset == physical(t.zero, n, pos)
             IN  [t EXCEPT !.fp = fp_seek(t.fp, real_offset),
                           !.index = SubSeq(t.index, 1, next + 1),
                           !.cur = next,
                           !.remaining = hdr(t, next).next - real_offset]

\* mutant: a seek inside the index makes the reader clean again
seek_with_index_cleared(t, n) ==
    LET next == find(t, n, t.cur)
    IN  IF next = -1 THEN Raise(t, "logic_error")
        ELSE LET pos         == next
                 real_offset == physical(t.zero, n, pos)
             IN  [t EXCEPT !.fp = fp_seek(t.fp, real_offset),
                           !.cur = next,
                           !.remaining = hdr(t, next).next - real_offset,
                           !.recovery = LFP_OK]

seek_with_index(t, n) ==
    LET next == find(t, n, t.cur)
    IN  IF next = -1 THEN Raise(t, "logic_error")
        ELSE LET pos         == next
                 real_offset == physical(t.zero, n, pos)
             IN  [t EXCEPT !.fp = fp_seek(t.fp, real_offset),
                           !.cur = next,
                           !.remaining = hdr(t, next).next - real_offset]

already_indexed(t, n) ==
    n <= logical(t.zero, hdr(t, Len(t.index) - 1).next, Len(t.index) - 1)

\* mutant: the chase does not stop at a file-mark
RECURSIVE seek_chase_on(_, _)
seek_chase_on(t, n) ==
    LET pos         == Len(t.index) - 1
        last        == hdr(t, pos)
        real_offset == physical(t.zero, n, pos)
    IN  IF real_offset <= last.next
        THEN [t EXCEPT !.fp = fp_seek(t.fp, real_offset),
                       !.cur = pos,
                       !.remaining = last.next - real_offset]
        ELSE LET t1 == read_header_from_disk(
                           [t EXCEPT !.fp = fp_seek(t.fp, last.next)])
             IN  IF t1.err # "none" THEN t1 ELSE seek_chase_on(t1, n)

\* the loop that chases the headers; t.cur is the last index position
RECURSIVE seek_chase(_, _)

\* after read_header_from_disk: t1 is the reader it left
seek_continue(t1, n) == IF t1.err # "none" THEN t1 ELSE seek_chase(t1, n)

seek_chase(t, n) ==
    LET pos         == Len(t.index) - 1
        last        == hdr(t, pos)
        real_offset == physical(t.zero, n, pos)
    IN  IF real_offset <= last.next
        THEN [t EXCEPT !.fp = fp_seek(t.fp, real_offset),
                       !.cur = pos,
                       !.remaining = last.next - real_offset]
        ELSE IF last.type = tapeimage_file THEN t
        ELSE seek_continue(read_header_from_disk(
                               [t EXCEPT !.fp = fp_seek(t.fp, last.next)]), n)

seek(t, n) ==
    IF UINT32 - 1 < n THEN Raise(t, "invalid_argument")
    ELSE IF already_indexed(t, n) THEN seek_with_index(t, n)
    ELSE seek_chase([t EXCEPT !.cur = Len(t.index) - 1, !.remaining = 0], n)

tell(t) == logical(t.zero, read_head_tell(t), t.cur)

\* the constructor: t.fp is the stream handed in
tapeimage(f) ==
    read_header_from_disk(
        [fp |-> f, zero |-> fp_tell(f), index |-> << >>, cur |-> -1,
         remaining |-> 0, recovery |-> LFP_OK, err |-> "none"])


(***************************************************************************)
(* The state machine.                                                      *)
(*   stream    the generated stream the image was built from               *)
(*   life      "new" before the constructor ran, "open" while the reader   *)
(*             exists, "gone" when the constructor threw                   *)
(*   fp, zero, index, current, recovery   the reader's members             *)
(*   ret       what the last call returned or raised: the call (op, arg),  *)
(*             the bytes copied (dst) and their count (n), the status or   *)
(*             the exception (status), the headers the call stored (grew), *)
(*             tell() and the recovery status as the call began (tell0,    *)
(*             rec0), and for a read that follows a seek that seek's       *)
(*             argument and stored headers (after_seek, seek_grew)         *)
(*   lpos      the logical position a caller expects the reader to be at   *)
(*             (0 after open, n after a seek to n inside the data, plus    *)
(*             the count of every read), or -1 when nothing is promised    *)
(*   raises    the number of calls that have raised since open             *)
(* tell() and eof() are const: they are the operators tell(Rd), eof(Rd).   *)
(***************************************************************************)
VARIABLES stream, life, fp, zero, index, current, recovery, ret,
          lpos, raises

vars == << stream, life, fp, zero, index, current, recovery, ret,
           lpos, raises >>

Rd ==
    [fp |-> fp, zero |-> zero, index |-> index, cur |-> current.pos,
     remaining |-> current.remaining, recovery |-> recovery, err |-> "none"]

\* the members after a call; the inner stream's plan ends with the call
Becomes(t) ==
    /\ fp' = [t.fp EXCEPT !.ready = -1]
    /\ zero' = t.zero
    /\ index' = t.index
    /\ current' = [pos |-> t.cur, remaining |-> t.remaining]
    /\ recovery' = t.recovery

\* the reader as a call enters it: the inner stream's plan for this call
Enter(ready) == [Rd EXCEPT !.fp.ready = ready, !.fp.log = << >>]

Total == SumTo(stream.lens, Len(stream.lens))

NoDefect(s) == \A i \in DOMAIN s.defect : s.defect[i] = "none"

WellFormed == NoDefect(stream) /\ stream.cut = 0

healthy == raises = 0

\* the inner stream answered OK-incomplete during the last call
Blocked == \E i \in DOMAIN fp.log : fp.log[i].status = LFP_OKINCOMPLETE

(***************************************************************************)
(* The streams the model runs on: every well-formed stream within the      *)
(* bounds, and damaged streams, whose records all hold one byte: one       *)
(* header with a defect, or a header with a defect the reader can recover  *)
(* from and a later header with any defect, or a cut image, or a header    *)
(* that passes every check and ends before it began.                       *)
(***************************************************************************)
Layouts == UNION { [1..k -> 0..MaxBody] : k \in 0..MaxRecords }
Ones == { [i \in 1..k |-> 1] : k \in 0..MaxRecords }
Clean(k) == [i \in 1..k |-> "none"]

WellFormedStreams ==
    { [lens |-> l, zero |-> z, defect |-> Clean(Len(l) + 1), cut |-> 0] :
        l \in Layouts, z \in {0, MaxZero} }

OneDefect(k) ==
    { [Clean(k) EXCEPT ![i] = d] : i \in 1..k, d \in Defects \ {"none"} }

TwoDefects(k) ==
    { [Clean(k) EXCEPT ![i] = d, ![j] = e] :
        i \in 1..k, j \in 1..k, d \in {"type", "prev"},
        e \in Defects \ {"none"} } \ OneDefect(k)

DamagedStreams ==
    UNION { { [lens |-> l, zero |-> z, defect |-> d, cut |-> 0] :
                d \in OneDefect(Len(l) + 1) \cup
                      { x \in TwoDefects(Len(l) + 1) :
                          \E i \in 1..Len(l) : x[i] \in {"type", "prev"} },
                z \in {0, MaxZero} } : l \in Ones }

CutStreams ==
    { [lens |-> l, zero |-> z, defect |-> Clean(Len(l) + 1), cut |-> c] :
        l \in Ones, z \in {0, MaxZero}, c \in Cuts \ {0} }

\* one header whose next is greater than its prev, as the monotonicity
\* check asks, but not past the header itself
ShortStreams ==
    UNION { { [lens |-> l, zero |-> z, cut |-> 0,
               defect |-> [Clean(Len(l) + 1) EXCEPT ![i] = "short"]] :
                i \in 1..(Len(l) + 1), z \in {0, MaxZero} } : l \in Ones }

Streams ==
    WellFormedStreams \cup DamagedStreams \cup CutStreams \cup ShortStreams

ReadReady == {-1, 0, 1, header_size + 1, header_size + 2}
SeekReady == {-1, 0, header_size}
OpenReady == {-1, 0}
SeekArgs == 0..(MaxRecords * MaxBody + 1) \cup {UINT32 - 1, UINT32}

Init ==
    /\ stream \in Streams
    /\ life = "new"
    /\ fp = [data |-> Image(stream.lens, stream.zero, stream.defect,
                            stream.cut),
             pos |-> stream.zero, ready |-> -1, log |-> << >>]
    /\ zero = 0
    /\ index = << >>
    /\ current = [pos |-> -1, remaining |-> 0]
    /\ recovery = LFP_OK
    /\ ret = [op |-> "none"]
    /\ lpos = -1
    /\ raises = 0

\* the constructor left t
Opened(t) ==
    /\ Becomes(t)
    /\ life' = IF t.err = "none" THEN "open" ELSE "gone"
    /\ ret' = [op |-> "open", status |-> t.err]
    /\ lpos' = IF t.err = "none" THEN 0 ELSE -1
    /\ raises' = IF t.err = "none" THEN 0 ELSE 1

\* lfp_tapeimage_open: the constructor; when it throws, the stream is
\* released and there is no reader
Open ==
    /\ life = "new"
    /\ \E ready \in OpenReady : Opened(tapeimage([fp EXCEPT !.ready = ready]))
    /\ UNCHANGED stream

Raised(r) == r.status \notin {"none", LFP_OK, LFP_OKINCOMPLETE, LFP_EOF,
                              LFP_PROTOCOL_TRYRECOVERY}

\* the argument of the call before, when that was a seek that returned, and
\* the number of headers that seek stored
SeekBefore == IF ret.op = "seek" /\ ~Raised(ret) THEN ret.arg ELSE -1
GrewBefore == IF ret.op = "seek" /\ ~Raised(ret) THEN ret.grew ELSE 0

\* calls are made on a reader that has raised at most MaxRaises times
Callable == life = "open" /\ raises <= MaxRaises

\* readinto(dst, len, bytes_read) ended in r
ReadEnds(r, len) ==
    /\ Becomes(r.t)
    /\ ret' = [op |-> "read", arg |-> len,
               n |-> Len(r.dst), dst |-> r.dst,
               status |-> r.status,
               after_seek |-> SeekBefore,
               seek_grew |-> GrewBefore,
               grew |-> Len(r.t.index) - Len(index),
               tell0 |-> tell(Rd), rec0 |-> recovery]
    /\ lpos' = IF lpos >= 0 /\ ~Raised(r) THEN lpos + Len(r.dst) ELSE -1
    /\ raises' = IF Raised(r) THEN raises + 1 ELSE raises

Read ==
    /\ Callable
    /\ \E len \in 0..MaxLen, ready \in ReadReady :
         ReadEnds(readinto(Enter(ready), len), len)
    /\ UNCHANGED << stream, life >>

\* seek(n) left t
SeekEnds(t, n) ==
    /\ Becomes(t)
    /\ ret' = [op |-> "seek", arg |-> n, status |-> t.err,
               grew |-> Len(t.index) - Len(index),
               tell0 |-> tell(Rd), rec0 |-> recovery]
    /\ lpos' = IF healthy /\ t.err = "none" /\ n <= Total THEN n ELSE -1
    /\ raises' = IF t.err = "none" THEN raises ELSE raises + 1

Seek ==
    /\ Callable
    /\ \E n \in SeekArgs, ready \in SeekReady :
         SeekEnds(seek(Enter(ready), n), n)
    /\ UNCHANGED << stream, life >>

Next == Open \/ Read \/ Seek

Spec == Init /\ [][Next]_vars


(***************************************************************************)
(* Reference runs.                                                         *)
(***************************************************************************)
\* an inner stream over an image, at the stream's origin, that never blocks
FreshFp(data) ==
    [data |-> data, pos |-> stream.zero, ready |-> -1, log |-> << >>]

\* what a reader opened on the image delivers when asked for len bytes
FreshRead(data, len) == readinto(tapeimage(FreshFp(data)), len)

\* the calls so far have all returned, including the last one
Returned == life = "open" /\ raises = 0

\* no call before the last one has raised
Sound == life = "open" /\ raises = IF Raised(ret) THEN 1 ELSE 0

\* the logical position at which the last read began
ReadFrom == lpos - ret.n

(***************************************************************************)
(* C1.  Round trip: on a well-formed stream whose inner stream answers OK, *)
(* a read that begins at logical position p (0 after open, advanced by     *)
(* every read) and asks for len bytes delivers the payload bytes p ..      *)
(* p + min(len, left) - 1 of the records in file order, no header byte     *)
(* among them, with status EOF when len exceeds what is left and OK        *)
(* otherwise.                                                              *)
(***************************************************************************)
RoundTrip ==
    (Returned /\ ret.op = "read" /\ WellFormed /\ lpos >= 0 /\ ~Blocked) =>
        LET left == Total - ReadFrom
            want == Min(ret.arg, left)
        IN  /\ ret.n = want
            /\ ret.dst = SubSeq(Payload(stream.lens), ReadFrom + 1,
                                ReadFrom + want)
            /\ \A i \in DOMAIN ret.dst : ret.dst[i] = PayloadByte(ReadFrom + i - 1)
            /\ ret.status = IF ret.arg > left THEN LFP_EOF ELSE LFP_OK

\* the first read after open crosses an empty record and both bytes of the
\* next one, and runs into the file-mark
RoundTripWitness ==
    /\ Returned /\ ret.op = "read" /\ WellFormed /\ ~Blocked
    /\ stream.lens = << 0, 2 >>
    /\ ret.after_seek = -1 /\ ret.grew = 2 /\ ret.tell0 = 0
    /\ ret.arg = 3 /\ ret.n = 2 /\ ret.status = LFP_EOF

(***************************************************************************)
(* C2.  Seek forward equivalence: on a well-formed stream, a read of k     *)
(* bytes that follows seek(n), n inside the data, returns the bytes (and   *)
(* the count) that a fresh reader gets by reading n + k bytes from the     *)
(* origin and dropping the first n.                                        *)
(***************************************************************************)
SeekForwardEquivalence ==
    (Returned /\ ret.op = "read" /\ WellFormed /\ ~Blocked
     /\ ret.after_seek >= 0 /\ ret.after_seek <= Total) =>
        LET n   == ret.after_seek
            ref == FreshRead(fp.data, n + ret.arg).dst
        IN  /\ ret.dst = SubSeq(ref, n + 1, Len(ref))
            /\ ret.n = Max(0, Len(ref) - n)

\* the seek had to chase headers, and the read returned data
SeekForwardWitness ==
    /\ Returned /\ ret.op = "read" /\ WellFormed /\ ~Blocked
    /\ ret.after_seek = 3 /\ ret.seek_grew >= 1 /\ ret.n = 1

\* a backward seek into an indexed record, and a read across a boundary
SeekBackwardWitness ==
    /\ Returned /\ ret.op = "read" /\ WellFormed /\ ~Blocked
    /\ stream.lens = << 2, 2 >> /\ Len(index) = 3
    /\ ret.after_seek = 1 /\ ret.seek_grew = 0 /\ ret.n = 3

(***************************************************************************)
(* C3.  tell after seek: on a well-formed stream, right after a seek(n)    *)
(* with n inside the data tell() is n, and after a read that follows that  *)
(* seek and returns k bytes tell() is n + k.                               *)
(***************************************************************************)
TellAfterSeek ==
    (Returned /\ WellFormed) =>
        /\ (ret.op = "seek" /\ ret.arg <= Total) => tell(Rd) = ret.arg
        /\ (ret.op = "read" /\ ret.after_seek >= 0 /\ ret.after_seek <= Total)
              => tell(Rd) = ret.after_seek + ret.n

\* the seek indexed the record it went to
TellAfterSeekWitness ==
    /\ Returned /\ WellFormed /\ ret.op = "seek"
    /\ ret.arg = 3 /\ ret.grew >= 1 /\ tell(Rd) = 3

\* the same answer to one read of every length, and to a second one after it
SameReads(a, b) ==
    \A len \in 0..MaxLen :
        LET ra == readinto(a, len)
            rb == readinto(b, len)
        IN  /\ ra.dst = rb.dst /\ ra.status = rb.status
            /\ \A more \in 0..MaxLen :
                  LET sa == readinto(ra.t, more)
                      sb == readinto(rb.t, more)
                  IN  sa.dst = sb.dst /\ sa.status = sb.status

\* a step that is seek(tell()) on a well-formed stream, after calls that
\* all returned and stayed inside the data
SeekOfTell ==
    /\ Returned /\ WellFormed /\ lpos >= 0
    /\ ret'.op = "seek" /\ ret'.arg = tell(Rd) /\ ~Raised(ret')

\* seek(tell()) leaves tell() and the reads that follow as they were
SeekTellReads ==
    [][SeekOfTell => tell(Rd') = tell(Rd) /\ SameReads(Rd, Rd')]_vars

(***************************************************************************)
(* C4.  seek(tell()) is a no-op: in a state reached by open, reads and     *)
(* seeks inside the data of a well-formed stream, a seek to tell() leaves  *)
(* tell() and eof() as they were, and the reads that follow return the     *)
(* same bytes and status as they would have without the seek.              *)
(***************************************************************************)
SeekTellNoop ==
    [][SeekOfTell => /\ tell(Rd') = tell(Rd)
                     /\ eof(Rd') = eof(Rd)
                     /\ SameReads(Rd, Rd')]_vars

\* a read returned and left the read head on a file-mark
ReadIntoFileMark ==
    life = "open" /\ ret.op = "read" /\ ~Raised(ret) /\ eof(Rd)

(***************************************************************************)
(* C5 as stated.  A read that stops on a file-mark returns status EOF, for *)
(* every requested length, clean or tainted.                               *)
(***************************************************************************)
FileMarkReadsEOF == ReadIntoFileMark => ret.status = LFP_EOF

(***************************************************************************)
(* C5.  A read that stops on a file-mark returns the bytes copied so far   *)
(* (none when it began on the file-mark); its status is the recovery       *)
(* status when the reader is tainted, else OK when the count equals the    *)
(* requested length (a read of 0 bytes), else EOF.                         *)
(***************************************************************************)
FileMarkReadStatus ==
    [][(ReadIntoFileMark)' =>
          /\ ret'.n = Len(ret'.dst) /\ ret'.n <= ret'.arg
          /\ (eof(Rd) => ret'.n = 0 /\ ret'.grew = 0)
          /\ ret'.status = IF recovery' # LFP_OK THEN recovery'
                           ELSE IF ret'.n = ret'.arg THEN LFP_OK
                           ELSE LFP_EOF]_vars

\* a tainted reader copied the last byte and ran into the file-mark
FileMarkReadWitness ==
    /\ ReadIntoFileMark /\ recovery = LFP_PROTOCOL_TRYRECOVERY
    /\ ret.arg = 2 /\ ret.n = 1 /\ ret.grew >= 1
    /\ ret.status = LFP_PROTOCOL_TRYRECOVERY

\* a clean reader asked for more than was left
FileMarkReadCleanWitness ==
    /\ ReadIntoFileMark /\ recovery = LFP_OK
    /\ ret.arg = 3 /\ ret.n = 2 /\ ret.status = LFP_EOF

\* a read of no bytes moved a clean reader onto the file-mark
FileMarkReadZeroWitness ==
    /\ ReadIntoFileMark /\ recovery = LFP_OK
    /\ ret.arg = 0 /\ ret.grew = 1 /\ ret.status = LFP_OK

\* the bytes the inner stream delivered in its first k answers of the call
RECURSIVE Delivered(_, _)
Delivered(log, k) == IF k = 0 THEN 0 ELSE log[k].n + Delivered(log, k - 1)

\* a read call during which the inner stream answered OK-incomplete, made
\* on a reader no call of which had raised before
BlockedRead ==
    /\ Sound /\ ret.op = "read" /\ Blocked

(***************************************************************************)
(* C6 as stated.  A read call during which the inner stream answers        *)
(* OK-incomplete returns with status OK-incomplete.                        *)
(***************************************************************************)
PartialReadReturnsIncomplete == BlockedRead => ret.status = LFP_OKINCOMPLETE

(***************************************************************************)
(* C6.  Partial-read pass-through: the OK-incomplete answer is the last    *)
(* answer the read call asks for.  When it answers a read of record data   *)
(* after delivering m bytes, the call returns m plus the bytes copied      *)
(* before, ending with those m bytes; the status is OK-incomplete on a     *)
(* clean reader and the recovery status on a tainted one; no header is     *)
(* parsed after it, and the read head and tell() have advanced by the      *)
(* returned count.  When it answers the read of a header, the call raises  *)
(* protocol failed recovery.                                               *)
(***************************************************************************)
PartialReadPassThrough ==
    BlockedRead =>
        LET k == Len(fp.log)
            a == fp.log[k]
        IN  /\ \A i \in 1..(k - 1) : fp.log[i].status = LFP_OK
            /\ a.status = LFP_OKINCOMPLETE /\ a.n < a.len
            /\ fp.pos = a.pos + a.n
            /\ IF Raised(ret)
               THEN /\ ret.status = "protocol_failed_recovery"
                    /\ a.len = header_size
                    /\ a.pos = index[Len(index)].next
                    /\ ret.n = Delivered(fp.log, k - 1) - header_size * ret.grew
               ELSE /\ a.len <= ret.arg
                    /\ ret.n = Delivered(fp.log, k) - header_size * ret.grew
                    /\ ret.n = Len(ret.dst) /\ ret.n < ret.arg
                    /\ SubSeq(ret.dst, ret.n - a.n + 1, ret.n) = a.bytes
                    /\ ret.status = IF recovery # LFP_OK THEN recovery
                                    ELSE LFP_OKINCOMPLETE
                    /\ current.remaining >= 1
                    /\ read_head_tell(Rd) = fp.pos
                    /\ tell(Rd) = ret.tell0 + ret.n

\* a tainted reader copied one byte, parsed a header, and was given none
\* of the bytes it asked for next
PartialReadWitness ==
    /\ BlockedRead /\ ~Raised(ret) /\ ret.rec0 = LFP_PROTOCOL_TRYRECOVERY
    /\ ret.grew = 1 /\ ret.n = 1 /\ ret.arg = 2
    /\ fp.log[Len(fp.log)].n = 0
    /\ ret.status = LFP_PROTOCOL_TRYRECOVERY

\* a clean reader copied one byte, parsed a header, and was given one of
\* the two bytes it asked for next
PartialReadCleanWitness ==
    /\ BlockedRead /\ ~Raised(ret) /\ recovery = LFP_OK
    /\ ret.grew = 1 /\ ret.n = 2 /\ ret.arg = 3
    /\ fp.log[Len(fp.log)].n = 1
    /\ ret.status = LFP_OKINCOMPLETE

\* the inner stream answered OK-incomplete to the read of a header
PartialHeaderWitness ==
    /\ BlockedRead /\ Raised(ret) /\ ret.n = 1

(***************************************************************************)
(* C7.  Seek past EOF: on a well-formed stream whose inner stream delivers *)
(* every header in full, seek(n) with n beyond the payload (and within the *)
(* 32-bit range seek accepts) returns without error, with the file-mark    *)
(* indexed and the read head on it, whether the file-mark was indexed      *)
(* before or is reached by the seek; the read of 1 byte or more that       *)
(* follows returns no bytes and status EOF.                                *)
(***************************************************************************)
SeekPastEOF ==
    (life = "open" /\ WellFormed) =>
        /\ ( /\ ret.op = "seek" /\ ret.arg > Total /\ ret.arg <= UINT32 - 1
             /\ ~Blocked /\ Sound )
              => /\ ~Raised(ret)
                 /\ Len(index) = Len(stream.lens) + 1
                 /\ eof(Rd)
        /\ ( /\ Returned /\ ret.op = "read" /\ ret.after_seek > Total
             /\ ret.arg >= 1 )
              => /\ ret.n = 0 /\ ret.dst = << >>
                 /\ ret.status = LFP_EOF
                 /\ ret.grew = 0

\* the seek chased two headers to the file-mark, and the read reports EOF
SeekPastEOFWitness ==
    /\ Returned /\ WellFormed /\ ret.op = "read"
    /\ ret.after_seek > Total /\ ret.after_seek <= UINT32 - 1
    /\ ret.seek_grew = 2 /\ Total = 2
    /\ ret.arg = 1 /\ ret.n = 0 /\ ret.status = LFP_EOF

\* the file-mark was in the index before the seek
SeekPastIndexedWitness ==
    /\ Returned /\ WellFormed /\ ret.op = "read"
    /\ ret.after_seek = Total + 1 /\ ret.seek_grew = 0 /\ Total = 2
    /\ ret.arg = 2 /\ ret.n = 0 /\ ret.status = LFP_EOF

\* the largest offset seek accepts
SeekPastFarWitness ==
    /\ Returned /\ WellFormed /\ ret.op = "seek"
    /\ ret.arg = UINT32 - 1 /\ ret.grew >= 1 /\ eof(Rd)

\* the stream's defects as the reader patches them in memory: a patched
\* type is a record's, a patched back-link is the right one
Patched(defect) ==
    [i \in DOMAIN defect |->
        IF defect[i] = "type" THEN "retype"
        ELSE IF defect[i] = "prev" THEN "none" ELSE defect[i]]

PatchedImage ==
    Image(stream.lens, stream.zero, Patched(stream.defect), stream.cut)

\* what a reader opened on the patched image delivers when it seeks to
\* from and reads len bytes
PatchedRead(from, len) ==
    readinto(seek(tapeimage(FreshFp(PatchedImage)), from), len)

\* a stored header ends before the end of its own 12 bytes
ShortStored ==
    \E p \in 0..(Len(index) - 1) :
        hdr(Rd, p).next < header_size +
            (IF p = 0 THEN zero ELSE hdr(Rd, p - 1).next)

\* a read of a tainted reader that returns reports the recovery status,
\* and delivers what the patched stream holds at the read's position
TaintVisible ==
    (life = "open" /\ recovery # LFP_OK /\ ret.op = "read" /\ ~Raised(ret)) =>
        /\ recovery = LFP_PROTOCOL_TRYRECOVERY
        /\ ret.status = LFP_PROTOCOL_TRYRECOVERY
        /\ (Returned /\ lpos >= 0 /\ ~ShortStored) =>
              LET ref == PatchedRead(ReadFrom,
                                     IF Blocked THEN ret.n ELSE ret.arg)
              IN  /\ ref.t.recovery = LFP_OK /\ ~Raised(ref)
                  /\ ret.dst = ref.dst /\ ret.n = Len(ref.dst)

(***************************************************************************)
(* C8.  Taint is sticky and visible: no read and no seek clears the        *)
(* recovery status once it is try-recovery; every read of a tainted reader *)
(* that returns reports try-recovery; and the bytes and the count it       *)
(* delivers are those a clean reader delivers at the same position over    *)
(* the stream with the headers patched (when the inner stream answered     *)
(* OK-incomplete, those a clean reader delivers when asked for as many).   *)
(***************************************************************************)
TaintSticky ==
    /\ []TaintVisible
    /\ [][(life = "open" /\ recovery # LFP_OK) => recovery' = recovery]_vars

\* the reader was tainted by the second header in an earlier call; after
\* a seek back, the read delivers that record's byte and reports
\* try-recovery
TaintWitness ==
    /\ Returned /\ ret.op = "read" /\ lpos >= 0 /\ ~Blocked
    /\ ret.rec0 = LFP_PROTOCOL_TRYRECOVERY
    /\ stream.defect[1] = "none" /\ stream.defect[2] = "type"
    /\ ret.after_seek = 1 /\ ret.seek_grew = 0
    /\ ret.arg = 1 /\ ret.n = 1 /\ ret.dst = << PayloadByte(1) >>
    /\ ret.status = LFP_PROTOCOL_TRYRECOVERY

\* the seek before the read parsed the header that tainted the reader
TaintBySeekWitness ==
    /\ Returned /\ ret.op = "read" /\ lpos >= 0 /\ ~Blocked
    /\ ret.rec0 = LFP_PROTOCOL_TRYRECOVERY
    /\ stream.defect[1] = "none" /\ stream.defect[2] = "type"
    /\ ret.after_seek = 2 /\ ret.seek_grew = 1
    /\ ret.arg = 1 /\ ret.n = 0
    /\ ret.status = LFP_PROTOCOL_TRYRECOVERY

\* the read itself parsed the header that tainted the reader
TaintByReadWitness ==
    /\ Returned /\ ret.op = "read" /\ lpos >= 0 /\ ~Blocked
    /\ ret.rec0 = LFP_OK /\ recovery = LFP_PROTOCOL_TRYRECOVERY
    /\ ret.grew = 2 /\ ret.n = 2 /\ ret.arg = 3
    /\ ret.status = LFP_PROTOCOL_TRYRECOVERY

(***************************************************************************)
(* Parsing the next header.  In a state in which every call has returned   *)
(* and the last indexed header is not a file-mark, the header a read or a  *)
(* seek parses next is the one at last.next: NextRaw is what the image     *)
(* holds there, ParseNext is the reader after read_header_from_disk.       *)
(***************************************************************************)
LastNext == index[Len(index)].next

CanParseNext ==
    /\ Returned
    /\ index[Len(index)].type # tapeimage_file
    /\ LastNext + header_size <= Len(fp.data)

NextRaw == decode_header(SubSeq(fp.data, LastNext + 1, LastNext + header_size))

ParseNext == read_header_from_disk([Rd EXCEPT !.fp = fp_seek(fp, LastNext)])

\* the back-link the checks expect of the next header
BackLinkMatches ==
    IF Len(index) >= 2 THEN NextRaw.prev = index[Len(index) - 1].next
    ELSE NextRaw.prev = zero

\* a clean reader patches an unknown type and becomes tainted
CleanTypePatched ==
    ( /\ recovery = LFP_OK /\ ~header_type_consistent(NextRaw)
      /\ NextRaw.next > NextRaw.prev /\ BackLinkMatches )
       => /\ ParseNext.err = "none"
          /\ ParseNext.index =
                Append(index, [NextRaw EXCEPT !.type = tapeimage_record])
          /\ ParseNext.recovery = LFP_PROTOCOL_TRYRECOVERY

\* every header the reader stored for one whose type was damaged has type
\* 0, and the reader is tainted
StoredTypePatched ==
    Sound =>
        \A i \in DOMAIN index \cap DOMAIN stream.defect :
            stream.defect[i] = "type" =>
                /\ index[i].type = tapeimage_record
                /\ recovery = LFP_PROTOCOL_TRYRECOVERY

(***************************************************************************)
(* C9 as stated.  While the reader is tainted, a next header with an       *)
(* unknown type or with a back-link that does not match raises protocol    *)
(* failed recovery and is not appended.                                    *)
(***************************************************************************)
TaintedAnomalyFails ==
    (life = "open" /\ CanParseNext) =>
        /\ CleanTypePatched
        /\ ( /\ recovery # LFP_OK
             /\ (~header_type_consistent(NextRaw) \/ ~BackLinkMatches) )
              => /\ ParseNext.err = "protocol_failed_recovery"
                 /\ ParseNext.index = index

(***************************************************************************)
(* C9.  Recovery transitions: while the reader is clean, a header with an  *)
(* unknown type, next > prev and a matching back-link is appended with     *)
(* type 0 and the reader becomes tainted (and a read that returns the      *)
(* record's data reports try-recovery); while the reader is tainted, a     *)
(* next header with an unknown type, or with next > prev and a back-link   *)
(* that does not match, raises protocol failed recovery and is not         *)
(* appended; one with a known type, a back-link that does not match and    *)
(* next <= prev raises protocol fatal.                                     *)
(***************************************************************************)
RecoveryTransitions ==
    /\ StoredTypePatched
    /\ (life = "open" /\ ret.op = "read" /\ ~Raised(ret)
        /\ ret.rec0 = LFP_OK /\ recovery # LFP_OK)
          => ret.grew >= 1 /\ ret.status = LFP_PROTOCOL_TRYRECOVERY
    /\ (life = "open" /\ CanParseNext) =>
        /\ CleanTypePatched
        /\ (recovery # LFP_OK /\ ~header_type_consistent(NextRaw))
              => /\ ParseNext.err = "protocol_failed_recovery"
                 /\ ParseNext.index = index
        /\ ( /\ recovery # LFP_OK /\ header_type_consistent(NextRaw)
             /\ ~BackLinkMatches )
              => /\ ParseNext.err = IF NextRaw.next > NextRaw.prev
                                    THEN "protocol_failed_recovery"
                                    ELSE "protocol_fatal"
                 /\ ParseNext.index = index
    /\ (Sound /\ ret.status = "protocol_failed_recovery" /\ ~Blocked)
          => /\ recovery = LFP_PROTOCOL_TRYRECOVERY
             /\ fp.log[Len(fp.log)].pos = LastNext

\* the read parsed a header of type 7, stored it as a record, and returned
\* the record's byte with the try-recovery status
RecoveryPatchWitness ==
    /\ Returned /\ ret.op = "read" /\ ~Blocked
    /\ ret.rec0 = LFP_OK /\ ret.grew = 1 /\ Len(index) = 2
    /\ stream.defect[2] = "type" /\ index[2].type = tapeimage_record
    /\ ret.arg = 2 /\ ret.n = 2 /\ ret.dst[2] = PayloadByte(1)
    /\ ret.status = LFP_PROTOCOL_TRYRECOVERY

\* a tainted reader met a second anomaly: the call raised protocol failed
\* recovery and stored nothing
RecoveryFailsWitness ==
    /\ life = "open" /\ ret.op = "read" /\ ~Blocked
    /\ ret.status = "protocol_failed_recovery"
    /\ ret.rec0 = LFP_PROTOCOL_TRYRECOVERY /\ ret.grew = 0
    /\ stream.defect[1] = "type" /\ stream.defect[2] = "prev"
    /\ Len(index) = 1 /\ fp.log[Len(fp.log)].pos = LastNext

\* the next header of a tainted reader has a wrong back-link and
\* next <= prev
TaintedFatalWitness ==
    /\ life = "open" /\ CanParseNext /\ recovery # LFP_OK
    /\ header_type_consistent(NextRaw) /\ ~BackLinkMatches
    /\ NextRaw.next <= NextRaw.prev

(***************************************************************************)
(* C10.  Fatal monotonicity: parsing a next header with next <= prev       *)
(* raises protocol fatal, appends nothing and leaves the recovery status   *)
(* as it was, whatever the header's type and whatever the recovery status. *)
(***************************************************************************)
FatalMonotone ==
    (life = "open" /\ CanParseNext /\ NextRaw.next <= NextRaw.prev) =>
        /\ ParseNext.err = "protocol_fatal"
        /\ ParseNext.index = index
        /\ ParseNext.recovery = recovery

\* what does hold: with a known type the header raises protocol fatal and
\* changes nothing; with an unknown type a clean reader becomes tainted and
\* raises protocol fatal, a tainted one raises protocol failed recovery
FatalMonotoneByType ==
    (life = "open" /\ CanParseNext /\ NextRaw.next <= NextRaw.prev) =>
        /\ ParseNext.index = index
        /\ ParseNext.err = IF header_type_consistent(NextRaw) \/ recovery = LFP_OK
                           THEN "protocol_fatal"
                           ELSE "protocol_failed_recovery"
        /\ ParseNext.recovery = IF header_type_consistent(NextRaw)
                                THEN recovery
                                ELSE LFP_PROTOCOL_TRYRECOVERY

\* a call of a clean reader raised protocol fatal and left it tainted
FatalTaintsWitness ==
    /\ life = "open" /\ ret.status = "protocol_fatal"
    /\ ret.rec0 = LFP_OK /\ recovery = LFP_PROTOCOL_TRYRECOVERY
    /\ ret.grew = 0

(***************************************************************************)
(* C11.  Consistency after an error: when a read call raises, on a reader  *)
(* no call of which had raised before, read_head.tell() equals the inner   *)
(* stream's position.                                                      *)
(***************************************************************************)
ConsistentAfterError ==
    (Sound /\ ret.op = "read" /\ Raised(ret)) => read_head_tell(Rd) = fp.pos

\* what does hold: the two agree when the error is raised by the read of a
\* record's data, and the inner stream is ahead of the read head, by the
\* bytes it delivered, when the error is raised by the parse of a header
ErrorLeavesHeaderBytes ==
    (Sound /\ ret.op = "read" /\ Raised(ret) /\ ~ShortStored) =>
        LET a == fp.log[Len(fp.log)]
        IN  /\ fp.pos = a.pos + a.n
            /\ IF ret.status = "unexpected_eof" /\ a.len < header_size
               THEN read_head_tell(Rd) = fp.pos
               ELSE /\ a.len = header_size
                    /\ current.remaining = 0
                    /\ read_head_tell(Rd) = a.pos
                    /\ fp.pos - read_head_tell(Rd) = a.n

\* a read raised protocol fatal after the 12 bytes of the header were read
ErrorAheadWitness ==
    /\ Sound /\ ret.op = "read" /\ ret.status = "protocol_fatal"
    /\ fp.pos = read_head_tell(Rd) + header_size

(***************************************************************************)
(* C12.  Position invariant at rest: after open and after every read or    *)
(* seek that returned, on a reader no call of which has raised, the read   *)
(* head's physical position current.next - remaining equals the inner      *)
(* stream's position.                                                      *)
(***************************************************************************)
PositionAtRest == Returned => read_head_tell(Rd) = fp.pos

\* what does hold: the two agree as long as no seek went past the end of
\* the data and every stored header ends after its own 12 bytes
PositionAtRestInside ==
    (Returned /\ lpos >= 0 /\ ~ShortStored) => read_head_tell(Rd) = fp.pos

\* a seek past the end, with the file-mark indexed before, left the inner
\* stream where it was
SeekPastLeavesStream ==
    /\ Returned /\ WellFormed /\ ret.op = "seek" /\ ret.arg > Total
    /\ ret.grew = 0 /\ eof(Rd)
    /\ read_head_tell(Rd) # fp.pos

\* the body length of the read head's record, from the stored headers
record_body_length ==
    hdr(Rd, current.pos).next - IF current.pos = 0 THEN zero + header_size
                         ELSE hdr(Rd, current.pos - 1).next + header_size

(***************************************************************************)
(* C13.  Remaining bounds: in every state of an open reader, the read      *)
(* head's remaining is at least 0 and at most the body length of the       *)
(* current record, as the stored headers give it.                          *)
(***************************************************************************)
RemainingBounds ==
    life = "open" =>
        /\ 0 <= current.remaining
        /\ current.remaining <= record_body_length

\* what does hold: the bounds hold when every stored header ends at or
\* after the end of its own 12 bytes
RemainingBoundsLong ==
    (life = "open" /\ ~ShortStored) =>
        /\ 0 <= current.remaining
        /\ current.remaining <= record_body_length

\* open accepted a first header with 0 = prev < next < zero + 12
NegativeRemainingWitness ==
    /\ Returned /\ ret.op = "open" /\ Len(index) = 1
    /\ hdr(Rd, 0).next > hdr(Rd, 0).prev
    /\ current.remaining < 0

\* the read head moved on to a stored header that ends before it began
WrappedRemainingWitness ==
    /\ Returned /\ ret.op = "read" /\ ShortStored
    /\ current.remaining > record_body_length

(***************************************************************************)
(* C14.  Index monotonicity: in every state of an open reader the stored   *)
(* headers have strictly increasing next fields.                           *)
(***************************************************************************)
IndexMonotone ==
    life = "open" =>
        \A i \in 1..(Len(index) - 1) : index[i].next < index[i + 1].next

\* what does hold: the index is monotone on the streams every header of
\* which has its next at the end of its record
IndexMonotoneLong ==
    (life = "open" /\ stream \notin ShortStreams) =>
        \A i \in 1..(Len(index) - 1) : index[i].next < index[i + 1].next

\* the second header was stored with a next below the first header's
NonMonotoneWitness ==
    /\ Returned /\ Len(index) = 2 /\ stream.defect[2] = "short"
    /\ index[2].prev < index[2].next
    /\ index[2].next <= index[1].next

\* every stored header from the third on links back to the header two
\* before it
BackLinkStored ==
    life = "open" =>
        \A i \in 3..Len(index) : index[i].prev = index[i - 2].next

\* the next header to parse is the third or a later one and its prev is
\* not the next of the header two before
BackLinkBroken ==
    /\ life = "open" /\ CanParseNext /\ Len(index) >= 2
    /\ NextRaw.prev # index[Len(index) - 1].next

(***************************************************************************)
(* C15 as stated.  Every stored header at position i >= 2 has prev equal   *)
(* to the next of the header at i - 2; a header read with another prev is  *)
(* stored with prev patched and taints the reader when the reader is       *)
(* clean, and raises protocol failed recovery and is not stored when the   *)
(* reader is tainted.                                                      *)
(***************************************************************************)
BackLinkPatchedOrFails ==
    /\ BackLinkStored
    /\ BackLinkBroken =>
          IF recovery = LFP_OK
          THEN /\ ParseNext.err = "none"
               /\ ParseNext.recovery = LFP_PROTOCOL_TRYRECOVERY
               /\ Len(ParseNext.index) = Len(index) + 1
               /\ ParseNext.index[Len(index) + 1].prev =
                      index[Len(index) - 1].next
          ELSE /\ ParseNext.err = "protocol_failed_recovery"
               /\ ParseNext.index = index

(***************************************************************************)
(* C15.  Back-link invariant: every stored header at position i >= 2 has   *)
(* prev equal to the next of the header at i - 2.  A header of type 0 or   *)
(* 1 read with another prev and with next > prev is stored with prev       *)
(* patched, the reader becoming tainted, when the reader is clean, and     *)
(* raises protocol failed recovery and is not stored when the reader is    *)
(* tainted; with next <= prev it raises protocol fatal and is not stored,  *)
(* the recovery status staying as it was.                                  *)
(***************************************************************************)
BackLinkInvariant ==
    /\ BackLinkStored
    /\ (BackLinkBroken /\ header_type_consistent(NextRaw)) =>
          IF NextRaw.next <= NextRaw.prev
          THEN /\ ParseNext.err = "protocol_fatal"
               /\ ParseNext.index = index
               /\ ParseNext.recovery = recovery
          ELSE IF recovery = LFP_OK
          THEN /\ ParseNext.err = "none"
               /\ ParseNext.recovery = LFP_PROTOCOL_TRYRECOVERY
               /\ ParseNext.index =
                      Append(index, [NextRaw EXCEPT
                                       !.prev = index[Len(index) - 1].next])
          ELSE /\ ParseNext.err = "protocol_failed_recovery"
               /\ ParseNext.index = index
               /\ ParseNext.recovery = recovery

\* a clean reader stored the third header, whose prev was damaged, with
\* the back-link patched
BackLinkPatchedWitness ==
    /\ Returned /\ Len(index) = 3 /\ stream.defect[3] = "prev"
    /\ stream.defect[1] = "none" /\ stream.defect[2] = "none"
    /\ recovery = LFP_PROTOCOL_TRYRECOVERY
    /\ index[3].prev = index[1].next
    /\ index[3].prev # decode_header(
           SubSeq(fp.data, index[2].next + 1,
                  index[2].next + header_size)).prev

\* the third header, about to be parsed by a tainted reader, has a prev
\* that does not match
BackLinkFailsWitness ==
    /\ BackLinkBroken /\ recovery # LFP_OK
    /\ header_type_consistent(NextRaw) /\ NextRaw.next > NextRaw.prev

\* the third header, about to be parsed by a clean reader, has a prev that
\* does not match and a next that is not above it
BackLinkFatalWitness ==
    /\ BackLinkBroken /\ recovery = LFP_OK
    /\ header_type_consistent(NextRaw) /\ NextRaw.next <= NextRaw.prev

\* the next header a tainted reader parses has an anomaly it would recover
\* from if it were clean: an unknown type, or a back-link that does not
\* match
TaintedMeetsAnomaly ==
    /\ life = "open" /\ CanParseNext /\ recovery # LFP_OK
    /\ (~header_type_consistent(NextRaw) \/ ~BackLinkMatches)

\* such a header raises, is not stored, and leaves the status as it is
TaintedAnomalyRaises ==
    TaintedMeetsAnomaly =>
        /\ ParseNext.err \in {"protocol_failed_recovery", "protocol_fatal"}
        /\ ParseNext.recovery = recovery
        /\ ParseNext.index = index

(***************************************************************************)
(* C16.  Recovery status is monotone: the status is clean or tainted; no   *)
(* step of open, read or seek, returning or raising, takes it from tainted *)
(* to clean; and a tainted reader that meets a further recoverable anomaly *)
(* raises an error and keeps the status.                                   *)
(***************************************************************************)
RecoveryMonotone ==
    /\ [](recovery \in {LFP_OK, LFP_PROTOCOL_TRYRECOVERY})
    /\ []TaintedAnomalyRaises
    /\ [][recovery # LFP_OK => recovery' = LFP_PROTOCOL_TRYRECOVERY]_vars

\* a seek of a tainted reader met a second anomaly and raised; the reader
\* is still tainted
TaintedStaysWitness ==
    /\ life = "open" /\ ret.op = "seek" /\ ~Blocked
    /\ ret.rec0 = LFP_PROTOCOL_TRYRECOVERY
    /\ ret.status = "protocol_failed_recovery"
    /\ recovery = LFP_PROTOCOL_TRYRECOVERY

\* a tainted reader went through a read that stored a good header
TaintedKeptWitness ==
    /\ Returned /\ ret.op = "read" /\ ret.rec0 = LFP_PROTOCOL_TRYRECOVERY
    /\ ret.grew >= 1 /\ recovery = LFP_PROTOCOL_TRYRECOVERY

\* the last answer of the inner stream during the last call
LastAnswer == fp.log[Len(fp.log)]

\* the last call was a read the inner stream ended with EOF in a record's
\* data
BodyEOF ==
    /\ Sound /\ ret.op = "read" /\ fp.log # << >>
    /\ LastAnswer.status = LFP_EOF /\ LastAnswer.len # header_size

\* the read head is inside a record whose data ends where the inner stream
\* ends
AtLastBytes ==
    /\ Returned /\ ~eof(Rd) /\ current.remaining > 0
    /\ fp.pos + current.remaining = Len(fp.data)

\* the inner stream answers EOF to the read of a record's data and
\* delivers every byte it was asked for
EagerEOF(len) ==
    fp_answer(fp, Min(len, current.remaining), Min(len, current.remaining),
              LFP_EOF)

\* readinto(dst, len, bytes_read) when the inner stream answers so
ReadWithEagerEOF(len) ==
    readinto_returns(readinto_answered(Rd, EagerEOF(len), len, << >>), len)

AtLastBytesWitness ==
    /\ AtLastBytes /\ stream.cut = header_size /\ current.remaining = 1

\* the last call ended in a header read the inner stream did not answer
\* with OK
HeaderNotRead ==
    /\ Sound /\ ret.op \in {"read", "seek"} /\ fp.log # << >>
    /\ LastAnswer.len = header_size /\ LastAnswer.status # LFP_OK

\* the reader is about to parse the header after the last stored one
ParsesNext ==
    Returned /\ index[Len(index)].type # tapeimage_file

\* the bytes the image holds from the next header's offset on
HeaderBytes == Max(0, Len(fp.data) - LastNext)

\* the inner stream answers the header read with status and n bytes
HeaderAnswer(status, n) ==
    fp_answer(fp_seek(fp, LastNext), header_size, n, status)

\* read_header_from_disk when the inner stream answers so
ParseAnswered(status, n) == header_read(Rd, HeaderAnswer(status, n))

\* the error e was raised, nothing was stored, the status is unchanged
ParseFails(t, e) ==
    t.err = e /\ t.index = index /\ t.recovery = recovery

(***************************************************************************)
(* C18.  Header read outcomes: when the inner stream answers the 12-byte   *)
(* header read with OK-incomplete the parse raises protocol failed         *)
(* recovery, with EOF unexpected EOF, with any other status but OK not     *)
(* implemented; in the three cases no header is appended and the recovery  *)
(* status is unchanged.                                                    *)
(***************************************************************************)
HeaderReadOutcomes ==
    /\ HeaderNotRead =>
          /\ ret.status = IF LastAnswer.status = LFP_OKINCOMPLETE
                          THEN "protocol_failed_recovery"
                          ELSE "unexpected_eof"
          /\ LastAnswer.n < header_size
          /\ LastAnswer.pos = LastNext
    /\ ParsesNext =>
          /\ \A n \in 0..Min(header_size - 1, HeaderBytes) :
                /\ ParseFails(ParseAnswered(LFP_OKINCOMPLETE, n),
                              "protocol_failed_recovery")
                /\ ParseFails(ParseAnswered(LFP_EOF, n), "unexpected_eof")
          /\ \A n \in 0..Min(header_size, HeaderBytes) :
                ParseFails(ParseAnswered(LFP_IOERROR, n), "not_implemented")

\* a read ran into an image that ends inside the next header
HeaderEOFWitness ==
    /\ HeaderNotRead /\ ret.op = "read" /\ stream.cut = 1
    /\ LastAnswer.status = LFP_EOF /\ LastAnswer.n = header_size - 1
    /\ ret.status = "unexpected_eof" /\ recovery = ret.rec0

\* a seek ran into a header the inner stream delivered no byte of
HeaderIncompleteWitness ==
    /\ HeaderNotRead /\ ret.op = "seek"
    /\ LastAnswer.status = LFP_OKINCOMPLETE /\ LastAnswer.n = 0
    /\ ret.status = "protocol_failed_recovery"

\* a tainted reader has a header to parse
HeaderOtherWitness ==
    /\ ParsesNext /\ recovery = LFP_PROTOCOL_TRYRECOVERY
    /\ HeaderBytes >= header_size
    /\ ParseAnswered(LFP_IOERROR, header_size).err = "not_implemented"

\* the step keeps every stored header and adds headers at the end only
IndexExtended ==
    /\ Len(index') >= Len(index)
    /\ SubSeq(index', 1, Len(index)) = index

\* the step is a seek to an offset the index covers
SeekCovered ==
    /\ life = "open" /\ ret'.op = "seek"
    /\ ret'.arg < UINT32 /\ already_indexed(Rd, ret'.arg)

(***************************************************************************)
(* C19.  The index is append-only: every step of open, read and seek,      *)
(* returning or raising, leaves the stored headers as they are and adds    *)
(* headers at the end only, and a seek to an offset the index covers adds  *)
(* none.                                                                   *)
(***************************************************************************)
IndexAppendOnly ==
    [][IndexExtended /\ (SeekCovered => index' = index)]_vars

\* a read stored a header with its type patched behind a header stored by
\* an earlier call
IndexGrewWitness ==
    /\ Sound /\ ret.op = "read" /\ ret.grew = 1 /\ Len(index) = 3
    /\ stream.defect[3] = "type" /\ index[3].type = tapeimage_record
    /\ ret.after_seek >= 0 /\ ret.seek_grew = 1

\* a seek back to the first record of an index of three headers
IndexKeptWitness ==
    /\ Returned /\ ret.op = "seek" /\ ret.arg = 0 /\ ret.grew = 0
    /\ Len(index) = 3 /\ current.pos = 0

\* the logical offset at which the record at position p ends
LogicalEnd(p) == logical(zero, hdr(Rd, p).next, p)

\* the smallest position whose record ends at or after n
Containing(n) ==
    CHOOSE p \in 0..(Len(index) - 1) :
        /\ n <= LogicalEnd(p)
        /\ \A q \in 0..(p - 1) : n > LogicalEnd(q)

\* the offsets looked up: 0 and the offsets at, before and after the end of
\* each record, up to the end of the last; these are all the offsets when
\* no record holds more than three bytes
LookupOffsets ==
    { n \in {0} \cup UNION { { LogicalEnd(p) - 1, LogicalEnd(p),
                                LogicalEnd(p) + 1 } :
                              p \in 0..(Len(index) - 1) } :
        0 <= n /\ n <= LogicalEnd(Len(index) - 1) }

\* phase 1 and phase 2 of find, without the hint
FindBySearch(n) == find_if(Rd, n, lower_bound(Rd, n, 0, Len(index)))

(***************************************************************************)
(* C20.  Index lookup is hint-independent: on an index whose records have  *)
(* non-negative body lengths (so that next is strictly increasing), for    *)
(* every offset n looked up, from 0 to the logical end of the last record, *)
(* and every hint, find(n, hint) is the smallest position whose record     *)
(* ends at or after n; the search without the hint gives the same          *)
(* position, and the lower bound of the binary search is not past it.      *)
(***************************************************************************)
FindHintIndependent ==
    (life = "open" /\ ~ShortStored) =>
        \A n \in LookupOffsets :
            /\ lower_bound(Rd, n, 0, Len(index)) <= Containing(n)
            /\ FindBySearch(n) = Containing(n)
            /\ \A hint \in 0..(Len(index) - 1) :
                  find(Rd, n, hint) = Containing(n)

\* a seek back from the second record to the end of the first, through the
\* search, with an index of three headers
FindBackWitness ==
    /\ Returned /\ WellFormed /\ stream.lens = << 1, 2 >> /\ Len(index) = 3
    /\ ret.op = "seek" /\ ret.grew = 0 /\ ret.tell0 = 3 /\ ret.arg = 1
    /\ current.pos = 0 /\ ~in_hint(Rd, 1, 1) /\ find(Rd, 1, 1) = 0

\* an index with an empty record in the middle: the offset at which it
\* begins and ends belongs to the record before it, whatever the hint
FindEmptyWitness ==
    /\ Returned /\ WellFormed /\ stream.lens = << 1, 0 >> /\ Len(index) = 3
    /\ find(Rd, 1, 0) = 0 /\ find(Rd, 1, 1) = 0 /\ find(Rd, 1, 2) = 0

\* only the last stored header can be a file-mark
FileMarkLast ==
    life = "open" =>
        \A i \in 1..(Len(index) - 1) : index[i].type # tapeimage_file

\* the last stored header is a file-mark
FileMarkIndexed == life = "open" /\ index[Len(index)].type = tapeimage_file

\* the 12-byte reads among the answers the inner stream gave in the call
HeaderReads(f) == { i \in DOMAIN f.log : f.log[i].len = header_size }

(***************************************************************************)
(* C21.  Nothing is indexed past the first file-mark: in every state only  *)
(* the last stored header can be a file-mark, and once a file-mark is      *)
(* stored no read and no seek, returning or raising, reads another header  *)
(* from the inner stream or changes the index.                             *)
(***************************************************************************)
NothingPastFileMark ==
    /\ []FileMarkLast
    /\ [][FileMarkIndexed =>
             index' = index /\ HeaderReads(fp') = {}]_vars

\* with the two records and the file-mark stored, a read from offset 0 for
\* more than the data delivers the two bytes and stops at the file-mark
FileMarkStopsReadWitness ==
    /\ Returned /\ WellFormed /\ stream.lens = << 1, 1 >>
    /\ ret.op = "read" /\ ret.after_seek = 0 /\ ret.grew = 0
    /\ ret.arg = 3 /\ ret.n = 2 /\ ret.status = LFP_EOF
    /\ Len(index) = 3 /\ FileMarkIndexed /\ HeaderReads(fp) = {}

\* a seek far past the end, with the file-mark stored, read nothing
FileMarkStopsSeekWitness ==
    /\ Returned /\ ret.op = "seek" /\ ret.arg = UINT32 - 1 /\ ret.grew = 0
    /\ FileMarkIndexed /\ fp.log = << >>

(***************************************************************************)
(* The chase, header by header.  A second specification in which seek is   *)
(* not one step: a seek that has to chase headers takes the reader to      *)
(* life = "seeking", and every turn of the loop of tapeimage::seek is a    *)
(* step.  While the reader is seeking, ret holds the call's argument and   *)
(* what SeekEnds needs of the state the call began in.                     *)
(***************************************************************************)
\* one turn of the loop of seek: the reader it leaves, and whether the
\* loop is left (by return, by break or by an exception)
seek_step(t, n) ==
    LET pos         == Len(t.index) - 1
        last        == hdr(t, pos)
        real_offset == physical(t.zero, n, pos)
    IN  IF real_offset <= last.next
        THEN [t |-> [t EXCEPT !.fp = fp_seek(t.fp, real_offset),
                              !.cur = pos,
                              !.remaining = last.next - real_offset],
              done |-> TRUE]
        ELSE IF last.type = tapeimage_file THEN [t |-> t, done |-> TRUE]
        ELSE [t |-> read_header_from_disk(
                        [t EXCEPT !.fp = fp_seek(t.fp, last.next)]),
              done |-> FALSE]

\* the loop is left when the turn said so or raised
ChaseDone(s) == s.done \/ s.t.err # "none"

\* seek(n) begins on the reader t: it ends at once, or the chase begins
SeekBegins(t, n) ==
    IF UINT32 - 1 < n
    THEN SeekEnds(Raise(t, "invalid_argument"), n) /\ UNCHANGED life
    ELSE IF already_indexed(t, n)
    THEN SeekEnds(seek_with_index(t, n), n) /\ UNCHANGED life
    ELSE /\ fp' = t.fp
         /\ current' = [pos |-> Len(t.index) - 1, remaining |-> 0]
         /\ life' = "seeking"
         /\ ret' = [op |-> "seek", arg |-> n, status |-> "chasing",
                    len0 |-> Len(index), tell0 |-> tell(Rd),
                    rec0 |-> recovery]
         /\ UNCHANGED << zero, index, recovery, lpos, raises >>

SeekBegin ==
    /\ Callable
    /\ \E n \in SeekArgs, ready \in SeekReady : SeekBegins(Enter(ready), n)
    /\ UNCHANGED stream

\* the turn of the loop gave s
ChaseMoves(s) ==
    IF ChaseDone(s)
    THEN /\ Becomes(s.t)
         /\ life' = "open"
         /\ ret' = [op |-> "seek", arg |-> ret.arg, status |-> s.t.err,
                    grew |-> Len(s.t.index) - ret.len0,
                    tell0 |-> ret.tell0, rec0 |-> ret.rec0]
         /\ lpos' = IF healthy /\ s.t.err = "none" /\ ret.arg <= Total
                    THEN ret.arg ELSE -1
         /\ raises' = IF s.t.err = "none" THEN raises ELSE raises + 1
    ELSE /\ fp' = s.t.fp
         /\ zero' = s.t.zero
         /\ index' = s.t.index
         /\ current' = [pos |-> s.t.cur, remaining |-> s.t.remaining]
         /\ recovery' = s.t.recovery
         /\ UNCHANGED << life, ret, lpos, raises >>

ChaseStep ==
    /\ life = "seeking"
    /\ \E s \in { seek_step(Rd, ret.arg) } : ChaseMoves(s)
    /\ UNCHANGED stream

ChaseNext == Open \/ Read \/ SeekBegin \/ ChaseStep

\* a call that entered the loop goes on running
ChaseSpec == Init /\ [][ChaseNext]_vars /\ WF_vars(ChaseStep)

\* the members after the step are those of the reader t
StepGives(t) ==
    /\ index' = t.index /\ recovery' = t.recovery /\ zero' = t.zero
    /\ current' = [pos |-> t.cur, remaining |-> t.remaining]
    /\ fp'.pos = t.fp.pos /\ fp'.log = t.fp.log

\* the chase taken header by header ends where the loop of seek, run in
\* one piece from any state of the chase, ends
ChaseAgrees ==
    [][life = "seeking" =>
          /\ StepGives(IF life' = "open" THEN seek_chase(Rd, ret.arg)
                       ELSE seek_step(Rd, ret.arg).t)
          /\ life' = "open" => ret'.status = seek_chase(Rd, ret.arg).err]_vars

\* the headers a chase has stored so far
Chased == Len(index) - ret.len0

\* a chase stores fewer headers than four times the bytes of the image
ChaseBounded == life = "seeking" => Chased <= 4 * Len(fp.data)

\* the step ends a chase: with an exception, or on a file-mark, or with
\* the read head on the last stored record at the offset asked for
ChaseEnds ==
    (life = "seeking" /\ life' = "open") =>
        \/ ret'.status # "none"
        \/ index'[current'.pos + 1].type = tapeimage_file
        \/ /\ current'.pos = Len(index') - 1
           /\ 0 <= current'.remaining
           /\ logical(zero', index'[current'.pos + 1].next
                               - current'.remaining, current'.pos) = ret.arg

(***************************************************************************)
(* C22.  Seek terminates: a seek that has to chase headers, on any of the  *)
(* streams, those with a header whose next is at or before its own offset  *)
(* among them, and for any offset up to the largest seek accepts, stops:   *)
(* the loop is left after a bounded number of headers, and it is left by   *)
(* an exception, or on a file-mark, or with the read head in the last      *)
(* stored record at the offset asked for.                                  *)
(***************************************************************************)
SeekTerminates ==
    /\ []ChaseBounded
    /\ [][ChaseEnds]_vars
    /\ (life = "seeking") ~> (life = "open")

\* a chase on a stream whose first header has its next at its own offset:
\* the same header was stored again, and the chase ended with protocol
\* failed recovery
ChaseShortWitness ==
    /\ life = "open" /\ ret.op = "seek" /\ stream.zero = MaxZero
    /\ stream.defect[1] = "short" /\ ret.grew >= 2
    /\ index[1].next = stream.zero /\ index[2] = index[1]
    /\ ret.status = "protocol_failed_recovery"

\* a chase in its second turn
ChasingWitness ==
    /\ life = "seeking" /\ WellFormed /\ Chased = 1
    /\ ret.arg = UINT32 - 1

\* a chase that stored one header and ended inside its record
ChaseInsideWitness ==
    /\ Returned /\ WellFormed /\ ret.op = "seek" /\ ret.grew = 1
    /\ ~eof(Rd) /\ current.remaining > 0 /\ tell(Rd) = ret.arg

=============================================================================
